---- MODULE Spec2Model ----
(***************************************************************************)
(* Model of app.py, the Bet365 scorers extractor: the text-to-table parser *)
(* (parse_bet365_scorers and its helpers) and the Extract button handler.  *)
(*                                                                         *)
(* Text is a sequence of one-character strings, so that the regular        *)
(* expressions, str.strip, str.lower and float are modelled by what they   *)
(* do to the characters.  The alphabet is ASCII: the accented letters and  *)
(* the curly apostrophe of _NAME_ALLOW are outside the model.  Indices are *)
(* Python's (0-based, -1 for "not found").                                 *)
(***************************************************************************)
EXTENDS Integers, Sequences, FiniteSets, TLC

VARIABLES
    raw_text,   \* the text area's content (app.py:99)
    ret,        \* what a call of parse_bet365_scorers(raw_text) ended in
    ui,         \* what the Extract handler last displayed
    first_run,  \* history: the first handler run of the session, <<text, ui>>
    arg,        \* the arguments of the helper under test
    out         \* what the helper returned

vars == <<raw_text, ret, ui, first_run, arg, out>>

None == [kind |-> "none"]

----------------------------------------------------------------------------
(* Characters and the string methods the code uses.                        *)

UPPER == <<"A","B","C","D","E","F","G","H","I","J","K","L","M",
           "N","O","P","Q","R","S","T","U","V","W","X","Y","Z">>
LOWER == <<"a","b","c","d","e","f","g","h","i","j","k","l","m",
           "n","o","p","q","r","s","t","u","v","w","x","y","z">>

Range(s) == {s[i] : i \in DOMAIN s}

Letters == Range(UPPER) \cup Range(LOWER)

Digits == {"0","1","2","3","4","5","6","7","8","9"}

\* str.strip()'s default character set, as far as ASCII has it
Whitespace == {" ", "\t", "\n", "\r", "\f"}

RECURSIVE lstrip(_)
lstrip(s) ==
    IF s # <<>> /\ Head(s) \in Whitespace THEN lstrip(Tail(s)) ELSE s

RECURSIVE rstrip(_)
rstrip(s) ==
    IF s # <<>> /\ s[Len(s)] \in Whitespace
    THEN rstrip(SubSeq(s, 1, Len(s) - 1))
    ELSE s

strip(s) == rstrip(lstrip(s))

\* str.lower on one character: the upper-case letters change
LowerOf == [c \in Range(UPPER) |->
               LOWER[CHOOSE i \in DOMAIN UPPER : UPPER[i] = c]]

UpperLetters == Range(UPPER)

lower_char(c) == IF c \in UpperLetters THEN LowerOf[c] ELSE c

lower(s) == [i \in 1..Len(s) |-> lower_char(s[i])]

\* str.split(sep) for a one-character separator: always at least one piece
RECURSIVE find_char(_, _, _)
find_char(t, c, i) ==
    IF i > Len(t) THEN 0
    ELSE IF t[i] = c THEN i
    ELSE find_char(t, c, i + 1)

RECURSIVE split(_, _)
split(t, sep) ==
    LET i == find_char(t, sep, 1)
    IN IF i = 0 THEN <<t>>
       ELSE <<SubSeq(t, 1, i - 1)>> \o split(SubSeq(t, i + 1, Len(t)), sep)

\* Python's s[a:b] for 0 <= a and 0 <= b (the only slices the code takes)
slice(s, a, b) ==
    LET hi == IF b < Len(s) THEN b ELSE Len(s)
    IN IF a >= hi THEN <<>> ELSE SubSeq(s, a + 1, hi)

SeqsUpTo(S, n) == UNION {[1..k -> S] : k \in 0..n}

----------------------------------------------------------------------------
(* _norm: the Normalizer.                                                  *)

\* the pieces f[lo], ..., f[hi] put together, by halves
RECURSIVE concat(_, _, _)
concat(f, lo, hi) ==
    IF lo > hi THEN <<>>
    ELSE IF lo = hi THEN f[lo]
    ELSE LET mid == (lo + hi) \div 2
         IN concat(f, lo, mid) \o concat(f, mid + 1, hi)

\* mutant of sub_crlf: the pattern without its "?", so that a lone CR stays
sub_crlf_pairs_only(t) ==
    IF \A i \in DOMAIN t : t[i] # "\r" THEN t
    ELSE concat([i \in DOMAIN t |->
               IF t[i] = "\r" /\ i < Len(t) /\ t[i + 1] = "\n" THEN <<>>
               ELSE <<t[i]>>],
           1, Len(t))

\* re.sub(r"\r\n?", "\n", text): every CR starts a match, which takes the LF
\* after it; what replaces the match is written in place of the CR
sub_crlf(t) ==
    IF \A i \in DOMAIN t : t[i] # "\r" THEN t
    ELSE concat([i \in DOMAIN t |->
               IF t[i] = "\r" THEN <<"\n">>
               ELSE IF t[i] = "\n" /\ i > 1 /\ t[i - 1] = "\r" THEN <<>>
               ELSE <<t[i]>>],
           1, Len(t))

\* re.sub(r"\n{2,}", "\n", t): of every run of newlines the first one stays
\* (the text itself when the pattern matches nowhere)
sub_blank_runs(t) ==
    IF \A i \in 2..Len(t) : t[i] # "\n" \/ t[i - 1] # "\n" THEN t
    ELSE concat([i \in DOMAIN t |->
               IF t[i] = "\n" /\ i > 1 /\ t[i - 1] = "\n" THEN <<>>
               ELSE <<t[i]>>],
           1, Len(t))

\* [ln.strip() for ln in pieces if ln.strip()]
RECURSIVE strip_nonempty(_)
strip_nonempty(pieces) ==
    IF pieces = <<>> THEN <<>>
    ELSE LET s == strip(Head(pieces))
         IN (IF s # <<>> THEN <<s>> ELSE <<>>) \o strip_nonempty(Tail(pieces))

_norm(text) ==
    strip_nonempty(split(sub_blank_runs(sub_crlf(text)), "\n"))

----------------------------------------------------------------------------
(* _idx and _find_any_index: the Header Locator.                           *)

\* app.py:14
_SCORER_HEADERS == <<
    <<"T","r","y","s","c","o","r","e","r","s">>,
    <<"G","o","a","l","s","c","o","r","e","r","s">>,
    <<"G","o","a","l"," ","S","c","o","r","e","r","s">> >>

TOKEN_First == <<"F","i","r","s","t">>
TOKEN_Last == <<"L","a","s","t">>
TOKEN_Anytime == <<"A","n","y","t","i","m","e">>

\* for i, ln in enumerate(lines): if ln.strip().lower() == token: return i
RECURSIVE idx_scan(_, _, _)
idx_scan(lines, token, i) ==
    IF i >= Len(lines) THEN -1
    ELSE IF lower(strip(lines[i + 1])) = token THEN i
    ELSE idx_scan(lines, token, i + 1)

\* mutant of _idx: a substring match in place of the comparison of the line
idx_substring(lines, token) ==
    LET t == lower(strip(token))
        hits == {i \in 0..(Len(lines) - 1) :
                    \E a \in 1..Len(lines[i + 1]) :
                        /\ a + Len(t) - 1 <= Len(lines[i + 1])
                        /\ lower(SubSeq(lines[i + 1], a, a + Len(t) - 1)) = t}
    IN IF hits = {} THEN -1 ELSE CHOOSE i \in hits : \A j \in hits : i <= j

_idx(lines, token) == idx_scan(lines, lower(strip(token)), 0)

\* for tok in tokens: i = _idx(lines, tok); if i != -1: return i, tok
RECURSIVE _find_any_index(_, _)
_find_any_index(lines, tokens) ==
    IF tokens = <<>> THEN <<-1, <<>> >>
    ELSE LET i == _idx(lines, Head(tokens))
         IN IF i # -1 THEN <<i, Head(tokens)>>
            ELSE _find_any_index(lines, Tail(tokens))

----------------------------------------------------------------------------
(* The regular expressions and float().                                    *)

\* the first position from i on that holds no digit (Len(s) + 1 if none)
RECURSIVE digits_end(_, _)
digits_end(s, i) ==
    IF i <= Len(s) /\ s[i] \in Digits THEN digits_end(s, i + 1) ELSE i

\* where a match of \d+(\.\d+)? from the start of s ends (the position after
\* it), 0 when there is none; the pattern is deterministic on its input
number_end(s) ==
    LET j == digits_end(s, 1)
    IN IF j = 1 THEN 0
       ELSE IF j <= Len(s) /\ s[j] = "." /\ digits_end(s, j + 1) > j + 1
            THEN digits_end(s, j + 1)
            ELSE j

\* re.fullmatch(r"\d+(\.\d+)?", ln)
fullmatch_number(s) == number_end(s) = Len(s) + 1

\* re.match(r"^\d+(\.\d+)?$", ln): $ also matches before a final newline
match_number(s) ==
    LET e == number_end(s)
    IN \/ e = Len(s) + 1
       \/ e # 0 /\ e = Len(s) /\ s[e] = "\n"

\* the character class of _NAME_ALLOW (app.py:15), ASCII part
NameChars == Letters \cup {"'", ".", "-", " "}

MinNameLen == 2

\* _NAME_ALLOW.match(ln): ^[...]{2,}$, $ also matching before a final newline
name_allow_match(s) ==
    LET body == IF s # <<>> /\ s[Len(s)] = "\n"
                THEN SubSeq(s, 1, Len(s) - 1) ELSE s
    IN /\ Len(body) >= MinNameLen
       /\ \A i \in DOMAIN body : body[i] \in NameChars

DIGITS == <<"0","1","2","3","4","5","6","7","8","9">>

digit_value(c) == (CHOOSE n \in DOMAIN DIGITS : DIGITS[n] = c) - 1

RECURSIVE int_of(_)
int_of(ds) ==
    IF ds = <<>> THEN 0
    ELSE int_of(SubSeq(ds, 1, Len(ds) - 1)) * 10 + digit_value(ds[Len(ds)])

\* a float as num / 10^exp in lowest terms of ten: 2.50 is [num 25, exp 1]
RECURSIVE float_norm(_, _)
float_norm(num, exp) ==
    IF exp > 0 /\ num % 10 = 0 THEN float_norm(num \div 10, exp - 1)
    ELSE [num |-> num, exp |-> exp]

\* float(ln) for a line the numeric pattern matched (float ignores the
\* whitespace around the numeral); exact for the short numerals modelled
float(s) ==
    LET b == strip(s)
        j == digits_end(b, 1)
    IN IF j > Len(b)
       THEN float_norm(int_of(b), 0)
       ELSE float_norm(int_of(SubSeq(b, 1, j - 1) \o SubSeq(b, j + 1, Len(b))),
                       Len(b) - j)

----------------------------------------------------------------------------
(* _collect_names and _collect_odds.                                       *)

\* app.py:37-40
skip_exact == {
    <<"B","B">>,
    <<"E","T"," ","E","x","t","r","a"," ","C","h","a","n","c","e">>,
    <<"S","h","o","w"," ","l","e","s","s">>,
    <<"V","i","e","w"," ","b","y">>,
    <<"M","a","r","k","e","t">>,
    <<"P","l","a","y","e","r">>,
    <<"N","e","w">>,
    <<"B","e","t">>,
    <<"B","u","i","l","d","e","r">> }

\* app.py:48
no_scorer == {
    <<"N","o"," ","T","r","y","s","c","o","r","e","r">>,
    <<"N","o"," ","G","o","a","l","s","c","o","r","e","r">> }

\* the body of the loop of _collect_names, line by line
RECURSIVE collect_names_loop(_)
collect_names_loop(region) ==
    IF region = <<>> THEN <<>>
    ELSE LET ln == Head(region)
             keep == IF ln \in skip_exact THEN <<>>
                     ELSE IF fullmatch_number(ln) THEN <<>>
                     ELSE IF ln \in no_scorer THEN <<ln>>
                     ELSE IF name_allow_match(ln) THEN <<ln>>
                     ELSE <<>>
         IN keep \o collect_names_loop(Tail(region))

\* mutant of _collect_names: the slice without its end, lines[start+1:]
collect_names_to_the_end(lines, start, end) ==
    collect_names_loop(slice(lines, start + 1, Len(lines)))

\* mutant of _collect_names: the skip_exact test left out
RECURSIVE collect_names_no_skip(_, _, _)
collect_names_no_skip(lines, start, end) ==
    IF start + 1 >= end \/ start + 1 >= Len(lines) THEN <<>>
    ELSE LET ln == lines[start + 2]
         IN (IF ~fullmatch_number(ln) /\ (ln \in no_scorer \/ name_allow_match(ln))
             THEN <<ln>> ELSE <<>>)
            \o collect_names_no_skip(lines, start + 1, end)

\* mutant of _collect_names: a name kept from the session's first table
\* comes before the names of this call
collect_names_remembering(lines, start, end) ==
    (IF first_run.kind = "run" /\ first_run.ui.kind = "table"
     THEN <<first_run.ui.df[1].SelectionName>> ELSE <<>>)
    \o collect_names_loop(slice(lines, start + 1, end))

_collect_names(lines, start, end) ==
    collect_names_loop(slice(lines, start + 1, end))

RECURSIVE collect_odds_loop(_)
collect_odds_loop(region) ==
    IF region = <<>> THEN <<>>
    ELSE LET ln == Head(region)
         IN (IF match_number(ln) THEN <<float(ln)>> ELSE <<>>)
            \o collect_odds_loop(Tail(region))

\* mutant of _collect_odds: the slice without its end, lines[start+1:]
collect_odds_to_the_end(lines, start, end) ==
    collect_odds_loop(slice(lines, start + 1, Len(lines)))

\* mutant of _collect_odds: a pattern that lets a sign and a comma through
RECURSIVE collect_odds_lenient(_, _, _)
collect_odds_lenient(lines, start, end) ==
    IF start + 1 >= end \/ start + 1 >= Len(lines) THEN <<>>
    ELSE LET ln == lines[start + 2]
             digits == SelectSeq(ln, LAMBDA c : c \in Digits)
         IN (IF digits # <<>> /\ \A i \in DOMAIN ln : ln[i] \in Digits \cup {".", ",", "-"}
             THEN <<float(digits)>> ELSE <<>>)
            \o collect_odds_lenient(lines, start + 1, end)

_collect_odds(lines, start, end) ==
    collect_odds_loop(slice(lines, start + 1, end))

----------------------------------------------------------------------------
(* parse_bet365_scorers.  A message is the sequence of its words.          *)

MSG_HEADERS ==
    <<"Could", "not", "find", "required", "headers:", "(Tryscorers|Goalscorers)", "/", "First", "/", "Last", "/", "Anytime">>

MSG_NO_ROWS ==
    <<"No", "rows", "parsed.", "Make", "sure", "you", "copied", "the", "whole", "market", "incl.", "First/Last/Anytime.">>

min_of(S) == CHOOSE x \in S : \A y \in S : x <= y

\* mutant of no_rows: the test never true, so that an empty table is returned
no_rows_unchecked(m) == m < 0

\* if m == 0
no_rows(m) == m = 0

\* mutant of headers_missing: the check without any_i
headers_missing_but_any(scorers_i, first_i, last_i, any_i) ==
    min_of({scorers_i, first_i, last_i}) = -1

\* if min(scorers_i, first_i, last_i, any_i) == -1
headers_missing(scorers_i, first_i, last_i, any_i) ==
    min_of({scorers_i, first_i, last_i, any_i}) = -1

\* mutant of data_frame: the last m entries of each list, not the first m
data_frame_tail(names, first, anyt, m) ==
    [i \in 1..m |-> [SelectionName |-> names[Len(names) - m + i],
                     FirstOdds |-> first[Len(first) - m + i],
                     AnyOdds |-> anyt[Len(anyt) - m + i]]]

\* the DataFrame of app.py:89-93, one record per row
data_frame(names, first, anyt, m) ==
    [i \in 1..m |-> [SelectionName |-> names[i],
                     FirstOdds |-> first[i],
                     AnyOdds |-> anyt[i]]]

\* what a call ends in: kind "raise" with the ValueError's message, or kind
\* "return" with the DataFrame; loc holds the function's locals at that point
parse_bet365_scorers(raw) ==
    LET lines == _norm(raw)
        scorers_i == _find_any_index(lines, _SCORER_HEADERS)[1]
        first_i == _idx(lines, TOKEN_First)
        last_i == _idx(lines, TOKEN_Last)
        any_i == _idx(lines, TOKEN_Anytime)
        found == [lines |-> lines, scorers_i |-> scorers_i, first_i |-> first_i,
                  last_i |-> last_i, any_i |-> any_i]
    IN IF headers_missing(scorers_i, first_i, last_i, any_i)
       THEN [kind |-> "raise", msg |-> MSG_HEADERS, loc |-> found]
       ELSE LET names == _collect_names(lines, scorers_i, first_i)
                first == _collect_odds(lines, first_i, last_i)
                last == _collect_odds(lines, last_i, any_i)
                anyt == _collect_odds(lines, any_i, Len(lines))
                m == min_of({Len(names), Len(first), Len(last), Len(anyt)})
                all == [lines |-> lines, scorers_i |-> scorers_i,
                        first_i |-> first_i, last_i |-> last_i, any_i |-> any_i,
                        names |-> names, first |-> first, last |-> last,
                        anyt |-> anyt, m |-> m]
            IN IF no_rows(m)
               THEN [kind |-> "raise", msg |-> MSG_NO_ROWS, loc |-> all]
               ELSE [kind |-> "return", df |-> data_frame(names, first, anyt, m),
                     loc |-> all]

----------------------------------------------------------------------------
(* The Extract handler (app.py:103-120).                                   *)

\* df["LastOdds"] = df["FirstOdds"]; df.insert(1, "SelectionOdds", "");
\* the columns in display order
with_last_and_blank(df) ==
    [i \in DOMAIN df |-> [SelectionName |-> df[i].SelectionName,
                          SelectionOdds |-> <<>>,
                          FirstOdds |-> df[i].FirstOdds,
                          LastOdds |-> df[i].FirstOdds,
                          AnyOdds |-> df[i].AnyOdds]]

\* what the handler displays for the text area's content; call is what its
\* call of parse_bet365_scorers ended in
extract(text) ==
    IF strip(text) = <<>>
    THEN [kind |-> "warning"]
    ELSE LET r == parse_bet365_scorers(strip(text))
         IN IF r.kind = "raise"
            THEN [kind |-> "error", msg |-> <<"Parse", "error:">> \o r.msg,
                  call |-> r]
            ELSE [kind |-> "table", df |-> with_last_and_blank(r.df),
                  call |-> r]

----------------------------------------------------------------------------
(* The Normalizer on its own: every short text over line endings, blanks   *)
(* and two letters.                                                        *)

MaxRaw == 5

NormAlphabet == {"a", "b", " ", "\r", "\n"}

InitNorm ==
    /\ arg \in {[fn |-> "_norm", text |-> t] : t \in SeqsUpTo(NormAlphabet, MaxRaw)}
    /\ out = None
    /\ raw_text = <<>>
    /\ ret = None
    /\ ui = None
    /\ first_run = None

CallNorm ==
    /\ arg.fn = "_norm"
    /\ out.kind = "none"
    /\ out' = [kind |-> "lines", lines |-> _norm(arg.text)]
    /\ UNCHANGED <<raw_text, ret, ui, first_run, arg>>

NextNorm == CallNorm

SpecNorm == InitNorm /\ [][NextNorm]_vars

LineEndings == {"\r", "\n"}

\* the maximal runs of characters between line endings that hold a
\* character other than whitespace, as <<first, last>> positions
TextRuns(t) ==
    {r \in (DOMAIN t) \X (DOMAIN t) :
        /\ r[1] <= r[2]
        /\ \A k \in r[1]..r[2] : t[k] \notin LineEndings
        /\ r[1] = 1 \/ t[r[1] - 1] \in LineEndings
        /\ r[2] = Len(t) \/ t[r[2] + 1] \in LineEndings
        /\ \E k \in r[1]..r[2] : t[k] \notin Whitespace}

\* a run without the whitespace around it
Trimmed(t, r) ==
    LET a == CHOOSE k \in r[1]..r[2] :
                 t[k] \notin Whitespace /\ \A j \in r[1]..(k - 1) : t[j] \in Whitespace
        b == CHOOSE k \in r[1]..r[2] :
                 t[k] \notin Whitespace /\ \A j \in (k + 1)..r[2] : t[j] \in Whitespace
    IN SubSeq(t, a, b)

\* C9: the Normalizer's output is, in the original order, the trimmed
\* text of every line of the input that is not blank, a line ending at a
\* CRLF, a lone CR or an LF; no element is empty or starts or ends with
\* whitespace, and a blank input gives the empty sequence.
C9_NormalizerOutput ==
    out.kind = "lines" =>
        LET t == arg.text
            runs == TextRuns(t)
        IN /\ Len(out.lines) = Cardinality(runs)
           /\ \A r \in runs :
                 out.lines[Cardinality({q \in runs : q[1] <= r[1]})] = Trimmed(t, r)
           /\ \A i \in DOMAIN out.lines :
                 /\ out.lines[i] # <<>>
                 /\ out.lines[i][1] \notin Whitespace
                 /\ out.lines[i][Len(out.lines[i])] \notin Whitespace
           /\ ((\A k \in DOMAIN t : t[k] \in Whitespace) => out.lines = <<>>)

\* a lone CR between two letters has split them, and a padded line was trimmed
C9_Witness ==
    /\ out.kind = "lines"
    /\ arg.text = <<" ", "a", "\r", "b", " ">>
    /\ out.lines = << <<"a">>, <<"b">> >>

----------------------------------------------------------------------------
(* The Header Locator on its own: every short sequence of lines that are   *)
(* markers, markers in another case, or lines that only contain a marker.  *)

MaxIdxLines == 3

LN_FIRST == <<"F","I","R","S","T">>
LN_FirstTry == <<"F","i","r","s","t"," ","T","r","y">>
LN_goalscorers == <<"g","o","a","l","s","c","o","r","e","r","s">>

IdxPool == Range(_SCORER_HEADERS)
           \cup {TOKEN_First, TOKEN_Last, TOKEN_Anytime,
                 LN_FIRST, LN_FirstTry, LN_goalscorers}

InitIdx ==
    /\ arg \in {[fn |-> "_idx", lines |-> l, token |-> t] :
                   l \in SeqsUpTo(IdxPool, MaxIdxLines),
                   t \in {TOKEN_First, TOKEN_Last, TOKEN_Anytime}}
               \cup
               {[fn |-> "_find_any_index", lines |-> l, tokens |-> _SCORER_HEADERS] :
                   l \in SeqsUpTo(IdxPool, MaxIdxLines)}
    /\ out = None
    /\ raw_text = <<>>
    /\ ret = None
    /\ ui = None
    /\ first_run = None

CallIdx ==
    /\ arg.fn = "_idx"
    /\ out.kind = "none"
    /\ out' = [kind |-> "index", i |-> _idx(arg.lines, arg.token)]
    /\ UNCHANGED <<raw_text, ret, ui, first_run, arg>>

CallFindAnyIndex ==
    /\ arg.fn = "_find_any_index"
    /\ out.kind = "none"
    /\ out' = LET r == _find_any_index(arg.lines, arg.tokens)
              IN [kind |-> "index", i |-> r[1], tok |-> r[2]]
    /\ UNCHANGED <<raw_text, ret, ui, first_run, arg>>

NextIdx == CallIdx \/ CallFindAnyIndex

SpecIdx == InitIdx /\ [][NextIdx]_vars

\* the same text up to the case of its letters
CasePairs == {{UPPER[j], LOWER[j]} : j \in DOMAIN UPPER}

SameIgnoringCase(a, b) ==
    /\ Len(a) = Len(b)
    /\ \A k \in DOMAIN a : a[k] = b[k] \/ {a[k], b[k]} \in CasePairs

\* the lines (1-based) that are, as a whole, one of the tokens
LinesEqual(lines, tokens) ==
    {k \in DOMAIN lines : \E t \in tokens : SameIgnoringCase(lines[k], t)}

\* the 0-based index of the first of them, -1 when there is none
FirstLineEqual(lines, tokens) ==
    IF LinesEqual(lines, tokens) = {} THEN -1
    ELSE min_of(LinesEqual(lines, tokens)) - 1

IdxPart ==
    (out.kind = "index" /\ arg.fn = "_idx") =>
        out.i = FirstLineEqual(arg.lines, {arg.token})

\* C8, as claimed: each marker's index is that of the first line equal to
\* the token as a whole, case ignored, -1 when there is none; the
\* scorer-header's is that of the first line equal to any of the variants.
C8_FirstLineOfAnyVariant ==
    /\ IdxPart
    /\ (out.kind = "index" /\ arg.fn = "_find_any_index") =>
          out.i = FirstLineEqual(arg.lines, Range(arg.tokens))

\* C8, amended: the scorer-header's index is that of the first line equal to
\* the first variant, in the order Tryscorers, Goalscorers, Goal Scorers,
\* that occurs at all, and -1 when none occurs; the rest as claimed.
C8_FirstLineOfFirstVariantPresent ==
    /\ IdxPart
    /\ (out.kind = "index" /\ arg.fn = "_find_any_index") =>
          LET present == {p \in DOMAIN arg.tokens :
                              LinesEqual(arg.lines, {arg.tokens[p]}) # {}}
          IN IF present = {} THEN out.i = -1 /\ out.tok = <<>>
             ELSE /\ out.tok = arg.tokens[min_of(present)]
                  /\ out.i = FirstLineEqual(arg.lines, {out.tok})

\* a Goalscorers line precedes a Tryscorers line, and the later one is found
C8_Witness ==
    /\ out.kind = "index"
    /\ arg.fn = "_find_any_index"
    /\ arg.lines = <<_SCORER_HEADERS[2], LN_FirstTry, _SCORER_HEADERS[1]>>
    /\ out.i = 2

----------------------------------------------------------------------------
(* The parser and the handler on pasted texts.  A text is its lines joined *)
(* by newlines.  Two families: the markers in every order, presence and    *)
(* repetition, each followed by a name and a numeral; and the markers in   *)
(* place with every short list of names and numerals between them.         *)

MaxMarkers == 4
MaxNames == 3
MaxOdds == 2

RECURSIVE join_lines(_)
join_lines(ls) ==
    IF ls = <<>> THEN <<>>
    ELSE IF Len(ls) = 1 THEN ls[1]
    ELSE ls[1] \o <<"\n">> \o join_lines(Tail(ls))

RECURSIVE Flatten(_)
Flatten(ss) == IF ss = <<>> THEN <<>> ELSE Head(ss) \o Flatten(Tail(ss))

PlayerNames == << <<"S","m","i","t","h">>, <<"J","o","n","e","s">>, <<"L","e","e">>, <<"K","i","m">>, <<"R","o","y">>, <<"F","o","x">> >>

Numerals == << <<"2",".","5">>, <<"2",".","7">>, <<"1",".","9">>, <<"3">>, <<"4",".","5">>, <<"6">> >>

MarkerPool == {_SCORER_HEADERS[1], _SCORER_HEADERS[2],
               TOKEN_First, TOKEN_Last, TOKEN_Anytime, LN_FIRST}

\* every marker of the skeleton followed by a name and a numeral of its own
OrderText(skeleton) ==
    join_lines(Flatten([p \in DOMAIN skeleton |->
                           <<skeleton[p], PlayerNames[p], Numerals[p]>>]))

OrderFamily == {OrderText(k) : k \in SeqsUpTo(MarkerPool, MaxMarkers)}

LN_7 == <<"7">>

NameRegionPool == {PlayerNames[1], PlayerNames[2], LN_7}

RowsText(names, first, last, anyt) ==
    join_lines(<<_SCORER_HEADERS[1]>> \o names \o <<TOKEN_First>> \o first
               \o <<TOKEN_Last>> \o last \o <<TOKEN_Anytime>> \o anyt)

FirstNumerals == <<Numerals[1], Numerals[4], Numerals[1], Numerals[4]>>
LastNumerals == <<Numerals[2], Numerals[5], Numerals[2], Numerals[5]>>
AnyNumerals == <<Numerals[3], Numerals[6], Numerals[3], Numerals[6]>>

\* every short list of names and jersey numbers, and every number of odds
RowsFamily ==
    {RowsText(n, SubSeq(FirstNumerals, 1, f), SubSeq(LastNumerals, 1, l),
              SubSeq(AnyNumerals, 1, a)) :
        n \in SeqsUpTo(NameRegionPool, MaxNames),
        f \in 0..MaxOdds, l \in 0..MaxOdds, a \in 0..MaxOdds}

BlankTexts == {<<>>, <<" ">>, <<"\n", " ">>}

Init ==
    /\ raw_text \in OrderFamily \cup RowsFamily \cup BlankTexts
    /\ ret = None
    /\ ui = None
    /\ first_run = None
    /\ arg = None
    /\ out = None

\* a call parse_bet365_scorers(raw_text)
CallParse ==
    /\ ret.kind = "none"
    /\ ret' = parse_bet365_scorers(raw_text)
    /\ UNCHANGED <<raw_text, ui, first_run, arg, out>>

\* the Extract button pressed: the script runs with extract true.  The
\* history keeps the first run, and whether another text was extracted since.
Extract ==
    /\ ui' = extract(raw_text)
    /\ first_run' =
          IF first_run.kind = "none"
          THEN [kind |-> "run", text |-> raw_text, ui |-> ui', other |-> FALSE]
          ELSE [first_run EXCEPT !.other = @ \/ raw_text # first_run.text]
    /\ UNCHANGED <<raw_text, ret, arg, out>>

Next == CallParse \/ Extract

Spec == Init /\ [][Next]_vars

----------------------------------------------------------------------------
(* What the claims call a bare numeral, its value, and a name.             *)

\* digits, optionally followed by a decimal point and more digits
BareNumeral(s) ==
    /\ s # <<>>
    /\ \A i \in DOMAIN s : s[i] \in Digits \cup {"."}
    /\ Cardinality({i \in DOMAIN s : s[i] = "."}) <= 1
    /\ s[1] \in Digits
    /\ s[Len(s)] \in Digits

DigitWrites ==
    ("0" :> 0) @@ ("1" :> 1) @@ ("2" :> 2) @@ ("3" :> 3) @@ ("4" :> 4) @@
    ("5" :> 5) @@ ("6" :> 6) @@ ("7" :> 7) @@ ("8" :> 8) @@ ("9" :> 9)

RECURSIVE Pow10(_)
Pow10(n) == IF n = 0 THEN 1 ELSE 10 * Pow10(n - 1)

RECURSIVE SumOver(_, _)
SumOver(S, f) ==
    IF S = {} THEN 0
    ELSE LET x == CHOOSE y \in S : TRUE IN f[x] + SumOver(S \ {x}, f)

\* v is the number the numeral s writes: with d digits after the point and
\* N the number its digits write, v.num / 10^v.exp = N / 10^d
IsValueOf(v, s) ==
    LET point == {i \in DOMAIN s : s[i] = "."}
        d == IF point = {} THEN 0 ELSE Len(s) - (CHOOSE i \in point : TRUE)
        ds == SelectSeq(s, LAMBDA c : c # ".")
        N == SumOver(DOMAIN ds,
                     [i \in DOMAIN ds |-> Pow10(Len(ds) - i) * DigitWrites[ds[i]]])
    IN /\ v.exp \in 0..d
       /\ v.num * Pow10(d - v.exp) = N

\* allowed letters, apostrophe, hyphen, period, space; at least two
NameShaped(s) ==
    /\ Len(s) >= 2
    /\ \A i \in DOMAIN s : s[i] \in Letters \cup {"'", "-", ".", " "}

\* the lines (1-based) strictly between the lines at 0-based start and end
Between(lines, start, end) ==
    {k \in DOMAIN lines : start + 1 < k /\ k <= end}

\* the k-th smallest member of a set of numbers
Nth(S, k) == CHOOSE x \in S : Cardinality({y \in S : y <= x}) = k

\* sequence got is what keeping the lines at positions K, in order, gives
IsSelection(got, lines, K) ==
    /\ Len(got) = Cardinality(K)
    /\ \A n \in 1..Cardinality(K) : got[n] = lines[Nth(K, n)]

IsValuesOfSelection(got, lines, K) ==
    /\ Len(got) = Cardinality(K)
    /\ \A n \in 1..Cardinality(K) : IsValueOf(got[n], lines[Nth(K, n)])

----------------------------------------------------------------------------
(* The Name Collector on its own: every short line over a few characters   *)
(* between two markers, and every short sequence of lines of each kind.    *)

MaxLineLen == 2
MaxCollectLines == 3

NameLineAlphabet == {"B", "b", "1", ".", " "}

\* the Line Sequence holds no empty line and no line with outer whitespace
IsLine(s) == s # <<>> /\ s[1] \notin Whitespace /\ s[Len(s)] \notin Whitespace

LN_BB == <<"B","B">>
LN_bet == <<"b","e","t">>
LN_NoTryscorer == <<"N","o"," ","T","r","y","s","c","o","r","e","r">>
LN_ONeil == <<"O","'","N","e","i","l">>
LN_Smith7 == <<"S","m","i","t","h","7">>

NameLinePool == {LN_BB, LN_bet, LN_7, LN_NoTryscorer, LN_ONeil, LN_Smith7}

CollectCalls(fn, alphabet, pool) ==
    {[fn |-> fn, lines |-> <<TOKEN_First, l, TOKEN_Last>>, start |-> 0, end |-> 2] :
        l \in {x \in SeqsUpTo(alphabet, MaxLineLen) : IsLine(x)}}
    \cup
    UNION {{[fn |-> fn, lines |-> l, start |-> a, end |-> b] :
               a \in 0..(Len(l) - 1), b \in 0..Len(l)} :
           l \in SeqsUpTo(pool, MaxCollectLines)}

InitNames ==
    /\ arg \in CollectCalls("_collect_names", NameLineAlphabet, NameLinePool)
    /\ out = None
    /\ raw_text = <<>>
    /\ ret = None
    /\ ui = None
    /\ first_run = None

CallCollectNames ==
    /\ arg.fn = "_collect_names"
    /\ out.kind = "none"
    /\ out' = [kind |-> "names",
               names |-> _collect_names(arg.lines, arg.start, arg.end)]
    /\ UNCHANGED <<raw_text, ret, ui, first_run, arg>>

NextNames == CallCollectNames

SpecNames == InitNames /\ [][NextNames]_vars

\* C5: the Name Collector returns, in the original order, exactly the lines
\* strictly between the two markers that are no noise token, no bare number,
\* and either a no-scorer sentinel or shaped like a name; so no noise token
\* and no number is among the names, and a "No Tryscorer" line there is.
C5_NamesKept ==
    out.kind = "names" =>
        LET region == Between(arg.lines, arg.start, arg.end)
            kept == {k \in region :
                        /\ arg.lines[k] \notin skip_exact
                        /\ ~BareNumeral(arg.lines[k])
                        /\ \/ arg.lines[k] \in no_scorer
                           \/ NameShaped(arg.lines[k])}
        IN /\ IsSelection(out.names, arg.lines, kept)
           /\ \A n \in DOMAIN out.names :
                 out.names[n] \notin skip_exact /\ ~BareNumeral(out.names[n])
           /\ \A k \in region :
                 arg.lines[k] = LN_NoTryscorer =>
                     \E n \in DOMAIN out.names : out.names[n] = LN_NoTryscorer

\* a noise token before the sentinel was dropped, the sentinel kept
C5_Witness ==
    /\ out.kind = "names"
    /\ arg.lines = <<LN_7, LN_BB, LN_NoTryscorer>>
    /\ arg.start = 0
    /\ arg.end = 3
    /\ out.names = <<LN_NoTryscorer>>

----------------------------------------------------------------------------
(* The Odds Collector on its own, and in the three calls the parser makes. *)

OddsLineAlphabet == {"1", "5", ".", "-", ",", "a"}

LN_abc == <<"a","b","c">>
LN_minus == <<"-","1",".","5">>
LN_comma == <<"1",",","5">>
LN_15 == <<"1",".","5">>
LN_2 == <<"2">>
LN_250 == <<"2",".","5","0">>

OddsLinePool == {LN_abc, LN_minus, LN_comma, LN_15, LN_2, LN_250}

InitOdds ==
    /\ \/ /\ arg \in CollectCalls("_collect_odds", OddsLineAlphabet, OddsLinePool)
          /\ raw_text = <<>>
       \/ /\ arg = [fn |-> "parse_bet365_scorers"]
          /\ raw_text \in RowsFamily
    /\ out = None
    /\ ret = None
    /\ ui = None
    /\ first_run = None

CallCollectOdds ==
    /\ arg.fn = "_collect_odds"
    /\ out.kind = "none"
    /\ out' = [kind |-> "odds",
               odds |-> _collect_odds(arg.lines, arg.start, arg.end)]
    /\ UNCHANGED <<raw_text, ret, ui, first_run, arg>>

CallParseRows ==
    /\ arg.fn = "parse_bet365_scorers"
    /\ ret.kind = "none"
    /\ ret' = parse_bet365_scorers(raw_text)
    /\ UNCHANGED <<raw_text, ui, first_run, arg, out>>

NextOdds == CallCollectOdds \/ CallParseRows

SpecOdds == InitOdds /\ [][NextOdds]_vars

Numerals_In(lines, start, end) ==
    {k \in Between(lines, start, end) : BareNumeral(lines[k])}

\* C6: the Odds Collector returns, in encounter order, the values of exactly
\* the lines strictly between its start marker and its end index that are
\* bare unsigned numerals: "1.5" gives 1.5 and "2" gives 2.0, while "abc",
\* "-1.5" and "1,5" give nothing; the parser collects the Anytime odds up to
\* the end of the Line Sequence.
C6_OddsKept ==
    /\ out.kind = "odds" =>
          /\ IsValuesOfSelection(out.odds, arg.lines,
                                 Numerals_In(arg.lines, arg.start, arg.end))
          /\ \A n \in DOMAIN out.odds : out.odds[n].exp = 0 \/ out.odds[n].num % 10 # 0
          /\ (arg.lines = <<TOKEN_First, LN_15, TOKEN_Last>>
                 => out.odds = <<[num |-> 15, exp |-> 1]>>)
          /\ (arg.lines = <<TOKEN_First, LN_2, TOKEN_Last>>
                 => out.odds = <<[num |-> 2, exp |-> 0]>>)
          /\ (arg.lines \in {<<TOKEN_First, l, TOKEN_Last>> :
                                l \in {LN_abc, LN_minus, LN_comma}}
                 => out.odds = <<>>)
    /\ (ret.kind # "none" /\ "anyt" \in DOMAIN ret.loc) =>
          LET loc == ret.loc
          IN /\ IsValuesOfSelection(loc.first, loc.lines,
                    Numerals_In(loc.lines, loc.first_i, loc.last_i))
             /\ IsValuesOfSelection(loc.last, loc.lines,
                    Numerals_In(loc.lines, loc.last_i, loc.any_i))
             /\ IsValuesOfSelection(loc.anyt, loc.lines,
                    {k \in DOMAIN loc.lines :
                        k > loc.any_i + 1 /\ BareNumeral(loc.lines[k])})

\* a numeral with a comma was passed over, the plain one after it kept
C6_Witness ==
    /\ out.kind = "odds"
    /\ arg.lines = <<LN_minus, LN_comma, LN_15>>
    /\ arg.start = 0
    /\ arg.end = 3
    /\ out.odds = <<[num |-> 15, exp |-> 1]>>

----------------------------------------------------------------------------
(* The claims about the parser and the handler.                            *)

\* the lines of a text as the claims read them: what stands between line
\* endings, trimmed, blank lines left out
RunStarts(t) ==
    {i \in DOMAIN t : t[i] \notin LineEndings /\ (i = 1 \/ t[i - 1] \in LineEndings)}

RunEnd(t, i) ==
    CHOOSE j \in i..Len(t) :
        /\ j = Len(t) \/ t[j + 1] \in LineEndings
        /\ \A k \in i..j : t[k] \notin LineEndings

LinesOf(t) ==
    LET starts == {i \in RunStarts(t) :
                      \E k \in i..RunEnd(t, i) : t[k] \notin Whitespace}
        rank == [i \in starts |-> Cardinality({j \in starts : j <= i})]
    IN [n \in 1..Cardinality(starts) |->
           LET i == CHOOSE j \in starts : rank[j] = n
           IN Trimmed(t, <<i, RunEnd(t, i)>>)]

Markers == {"scorer-header", "First", "Last", "Anytime"}

TokensOf(marker) ==
    CASE marker = "scorer-header" -> Range(_SCORER_HEADERS)
      [] marker = "First" -> {TOKEN_First}
      [] marker = "Last" -> {TOKEN_Last}
      [] marker = "Anytime" -> {TOKEN_Anytime}

\* the markers that no line of the text is
AbsentIn(L) == {mk \in Markers : LinesEqual(L, TokensOf(mk)) = {}}

Absent(t) == AbsentIn(LinesOf(t))

\* the markers a message names
NamedIn(msg) ==
    {mk \in Markers :
        \/ mk = "scorer-header" /\ "(Tryscorers|Goalscorers)" \in Range(msg)
        \/ mk # "scorer-header" /\ mk \in Range(msg)}

IsMissingHeaders(r) ==
    /\ r.kind = "raise"
    /\ Len(r.msg) >= 5
    /\ SubSeq(r.msg, 1, 5) = <<"Could", "not", "find", "required", "headers:">>

IsNoRows(r) ==
    /\ r.kind = "raise"
    /\ Len(r.msg) >= 3
    /\ SubSeq(r.msg, 1, 3) = <<"No", "rows", "parsed.">>

IsTable(r) == r.kind = "return" /\ Len(r.df) >= 1

\* C1: a call ends in exactly one of a Missing-Headers error, a No-Rows error
\* and a table of at least one row; No-Rows only with all four markers found
\* and the shortest of the four parsed lists empty; an error comes with no
\* table, from the parser and in the handler's display.
C1_ThreeOutcomes ==
    /\ ret.kind # "none" =>
          /\ Cardinality({k \in {"headers", "rows", "table"} :
                 \/ k = "headers" /\ IsMissingHeaders(ret)
                 \/ k = "rows" /\ IsNoRows(ret)
                 \/ k = "table" /\ IsTable(ret)}) = 1
          /\ IsNoRows(ret) =>
                /\ Absent(raw_text) = {}
                /\ min_of({Len(ret.loc.names), Len(ret.loc.first),
                           Len(ret.loc.last), Len(ret.loc.anyt)}) = 0
          /\ ret.kind = "raise" => "df" \notin DOMAIN ret
    /\ ui.kind = "error" => "df" \notin DOMAIN ui /\ ui.call.kind = "raise"
    /\ ui.kind = "table" => IsTable(ui.call) /\ Len(ui.df) = Len(ui.call.df)

\* all four markers are there, no numeral follows Anytime: No-Rows, no table
C1_Witness ==
    /\ IsNoRows(ret)
    /\ Absent(raw_text) = {}
    /\ Len(ret.loc.names) > 0
    /\ Len(ret.loc.anyt) = 0
    /\ ui.kind = "error"

\* C2: a text in which one of the four markers is no line of its own fails
\* with the Missing-Headers error, and the error names every absent marker.
C2_MissingHeaders ==
    ret.kind # "none" =>
        LET absent == Absent(raw_text)
        IN absent # {} =>
              /\ IsMissingHeaders(ret)
              /\ absent \subseteq NamedIn(ret.msg)

\* only Anytime is absent, and the error names it
C2_Witness ==
    /\ ret.kind = "raise"
    /\ Absent(raw_text) = {"Anytime"}
    /\ "Anytime" \in NamedIn(ret.msg)

\* C3: a displayed table has m = min(len(names), len(first), len(last),
\* len(anyt)) rows, and row i is names[i], a blank, first[i], first[i],
\* anyt[i]: the lists cut to their first m entries, LastOdds = FirstOdds.
C3_Rows ==
    ui.kind = "table" =>
        LET loc == ui.call.loc
            m == min_of({Len(loc.names), Len(loc.first), Len(loc.last), Len(loc.anyt)})
        IN /\ Len(ui.df) = m
           /\ \A i \in 1..m :
                 ui.df[i] = [SelectionName |-> loc.names[i],
                             SelectionOdds |-> <<>>,
                             FirstOdds |-> loc.first[i],
                             LastOdds |-> loc.first[i],
                             AnyOdds |-> loc.anyt[i]]

\* three names and two First odds: two rows, the third name left out
C3_Witness ==
    /\ ui.kind = "table"
    /\ Len(ui.call.loc.names) = 3
    /\ Len(ui.call.loc.first) = 2
    /\ Len(ui.df) = 2
    /\ ui.df[2].SelectionName = ui.call.loc.names[2]
    /\ ui.call.loc.names[3] # ui.call.loc.names[2]

Increasing(s, f, l, a) == s < f /\ f < l /\ l < a

\* C10: a table is returned only when the located marker indices increase
\* strictly, scorer-header < First < Last < Anytime; with all four markers
\* found in another order the call fails with No-Rows; and no line that is
\* First, Last or Anytime in any case is a SelectionName of a table.
C10_MarkerOrder ==
    ret.kind # "none" =>
        LET L == LinesOf(raw_text)
            s == FirstLineEqual(L, TokensOf("scorer-header"))
            f == FirstLineEqual(L, TokensOf("First"))
            l == FirstLineEqual(L, TokensOf("Last"))
            a == FirstLineEqual(L, TokensOf("Anytime"))
            found == s # -1 /\ f # -1 /\ l # -1 /\ a # -1
        IN /\ ret.kind = "return" =>
                 /\ Increasing(s, f, l, a)
                 /\ Increasing(ret.loc.scorers_i, f, l, a)
                 /\ \A i \in DOMAIN ret.df :
                       \A t \in {TOKEN_First, TOKEN_Last, TOKEN_Anytime} :
                           ~SameIgnoringCase(ret.df[i].SelectionName, t)
           /\ (found /\ ~Increasing(s, f, l, a)) => IsNoRows(ret)
           /\ (found /\ ~Increasing(ret.loc.scorers_i, f, l, a)) => IsNoRows(ret)

\* all four markers, Last before First: No-Rows
C10_Witness ==
    /\ IsNoRows(ret)
    /\ Absent(raw_text) = {}
    /\ FirstLineEqual(LinesOf(raw_text), {TOKEN_Last})
          < FirstLineEqual(LinesOf(raw_text), {TOKEN_First})

-----------------------------------------------------------------------------
(* A session of the page: texts are pasted and extracted one after the      *)
(* other.  The texts have the markers in place, one or all of the names and *)
(* of the First odds, all of the Anytime odds, and every short list of two  *)
(* numerals, written nowhere else in the text, between Last and Anytime;    *)
(* one text has no marker and one is blank.                                 *)

MaxSessionRows == 2

LastPool == {Numerals[2], Numerals[5]}

LN_Hello == <<"H","e","l","l","o">>

SessionFamily ==
    {RowsText(SubSeq(PlayerNames, 1, n), SubSeq(FirstNumerals, 1, f), l,
              SubSeq(AnyNumerals, 1, MaxSessionRows)) :
        n \in {1, MaxSessionRows}, f \in {1, MaxSessionRows},
        l \in SeqsUpTo(LastPool, MaxSessionRows)}
    \cup {LN_Hello, <<" ">>}

InitSession ==
    /\ raw_text = <<>>
    /\ ret = None
    /\ ui = None
    /\ first_run = None
    /\ arg = None
    /\ out = None

\* the text area's content changed: the script runs again with extract
\* false and displays nothing
Paste ==
    \E t \in SessionFamily :
        /\ t # raw_text
        /\ raw_text' = t
        /\ ui' = None
        /\ UNCHANGED <<ret, first_run, arg, out>>

NextSession == Paste \/ Extract

SpecSession == InitSession /\ [][NextSession]_vars

\* what a run displayed: the table, the error's message, or the warning
Outcome(u) ==
    CASE u.kind = "table" -> <<"table", u.df>>
      [] u.kind = "error" -> <<"error", u.msg>>
      [] u.kind = "warning" -> <<"warning">>

\* what the run's call of parse_bet365_scorers ended in
Returned(u) ==
    IF u.kind = "warning" THEN <<"not called">>
    ELSE IF u.call.kind = "return" THEN <<"return", u.call.df>>
    ELSE <<"raise", u.call.msg>>

\* the lines (1-based) after the first Last line and before the first
\* Anytime line
LastRegion(L) ==
    LET l == FirstLineEqual(L, {TOKEN_Last})
        a == FirstLineEqual(L, {TOKEN_Anytime})
    IN IF l = -1 \/ a = -1 THEN {}
       ELSE {k \in DOMAIN L : l + 1 < k /\ k < a + 1}

\* two texts with the same lines but for the numerals between Last and
\* Anytime: a numeral there faces a numeral
DiffersOnlyInLast(t1, t2) ==
    LET L1 == LinesOf(t1)
        L2 == LinesOf(t2)
    IN /\ Len(L1) = Len(L2)
       /\ LastRegion(L1) = LastRegion(L2)
       /\ \A k \in DOMAIN L1 :
             \/ L1[k] = L2[k]
             \/ /\ k \in LastRegion(L1)
                /\ BareNumeral(L1[k])
                /\ BareNumeral(L2[k])

\* the numbers of a row of the displayed table
FieldsOf(row) == {row.FirstOdds, row.LastOdds, row.AnyOdds}

\* C4: two texts that differ only in the numerals between Last and Anytime
\* are displayed alike, and no field of a table is the value of a line
\* between Last and Anytime.
C4_LastRegionOnlyCounts ==
    (ui.kind # "none" /\ first_run.kind = "run") =>
        /\ DiffersOnlyInLast(first_run.text, raw_text) =>
              /\ Returned(ui) = Returned(first_run.ui)
              /\ Outcome(ui) = Outcome(first_run.ui)
        /\ ui.kind = "table" =>
              LET L == LinesOf(raw_text)
              IN /\ \A i \in DOMAIN ui.df : \A k \in LastRegion(L) :
                        /\ \A v \in FieldsOf(ui.df[i]) : ~IsValueOf(v, L[k])
                        /\ ui.df[i].SelectionName # L[k]
                        /\ ui.df[i].SelectionOdds # L[k]

\* two tables of two rows, from texts whose two Last numerals all differ
C4_Witness ==
    /\ ui.kind = "table"
    /\ first_run.kind = "run"
    /\ first_run.ui.kind = "table"
    /\ Len(ui.df) = 2
    /\ DiffersOnlyInLast(first_run.text, raw_text)
    /\ LET L1 == LinesOf(first_run.text)
           L2 == LinesOf(raw_text)
       IN /\ Cardinality(LastRegion(L2)) = 2
          /\ \A k \in LastRegion(L2) : L1[k] # L2[k]

====
